---- MODULE Spec2Model ----
(***************************************************************************)
(* Index coordination and document store of index_server.py, together     *)
(* with the /query handler of flask_demo.py that fronts query_index.       *)
(*                                                                         *)
(* The module-level globals (index, stored_docs, lock), the two durable    *)
(* artifacts (./saved_index and stored_documents.pkl) and the position of  *)
(* every thread inside initialize_index, query_index, insert_into_index    *)
(* and get_documents_list are the state.  Collaborator calls (loader,      *)
(* insert_document, persist, pickle, query engine) either return or raise; *)
(* which of the two is an input of the step that makes the call.           *)
(***************************************************************************)
EXTENDS Integers, Sequences, FiniteSets, TLC

\* ------------------------------------------------------------------ bounds
MaxEvents == 3       \* calls, process restarts and raising collaborators, per behaviour

\* --------------------------------------------------------------- constants
PreviewLen == 200    \* document.text[:200]
TopK == 2            \* similarity_top_k=2

\* ----------------------------------------------------------------- threads
Main == "main"
Workers == {"w1", "w2"}
Threads == {Main} \cup Workers
NoThread == "none"

\* ------------------------------------------------------------------ values
NoneVal == "<None>"                       \* Python None as an argument
Ellipsis == <<".", ".", ".">>             \* the "..." suffix

\* Texts of the document parts the loader can produce.
TextShort == <<"a", "b", "c">>
TextExact == [i \in 1..PreviewLen |-> IF i % 2 = 1 THEN "e" ELSE "f"]
TextLong == [i \in 1..(PreviewLen + 2) |-> IF i % 2 = 1 THEN "x" ELSE "y"]

\* The files of the working directory; any other path does not exist.
\* The (doc_file_path, doc_id) pairs insert_into_index is called with.
InsertArgs == { <<"a.txt", NoneVal>>, <<"a.txt", "">>, <<"b.pdf", NoneVal>>,
                <<"b.pdf", "d1">>, <<"nofile", NoneVal>> }
QueryTexts == {NoneVal, "", "q"}
QueryErrors == {"RateLimitError"}         \* raw text of a collaborator error

exists(path) == path \in {"a.txt", "b.pdf"}

basename(path) == path

\* SimpleDirectoryReader(input_files=[path]).load_data() when it returns:
\* one part per page, each with the loader's id_ and its text.
load_data(path) ==
    IF path = "a.txt"
    THEN << [id_ |-> "u1", text |-> TextShort] >>
    ELSE << [id_ |-> "u2", text |-> TextExact],
            [id_ |-> "", text |-> TextLong] >>

\* ----------------------------------------------------------------- helpers
Min(a, b) == IF a < b THEN a ELSE b

Range(s) == {s[i] : i \in 1..Len(s)}

\* text[:n]
Slice(text, n) == SubSeq(text, 1, Min(n, Len(text)))

\* (mutant) the suffix is added from 200 characters on, not above 200
previewOffByOne(text) ==
    Slice(text, PreviewLen) \o (IF Len(text) >= PreviewLen THEN Ellipsis ELSE <<>>)

\* document.text[:200] + ("..." if len(document.text) > 200 else "")
preview(text) ==
    Slice(text, PreviewLen) \o (IF Len(text) > PreviewLen THEN Ellipsis ELSE <<>>)

\* effective_doc_id of one part (lines 108-110)
effective_doc_id(doc_id, document, path) ==
    LET first == IF doc_id # NoneVal THEN doc_id ELSE document.id_
    IN IF first = "" THEN basename(path) ELSE first

\* A dict is a sequence of [id, text] entries with distinct ids, in insertion
\* order; stored_docs[key] = value keeps the position of an existing key.
Keys(d) == {d[i].id : i \in 1..Len(d)}

DictGet(d, key) == (CHOOSE i \in 1..Len(d) : d[i].id = key)

DictSet(d, key, value) ==
    IF key \in Keys(d)
    THEN [i \in 1..Len(d) |-> IF d[i].id = key THEN [id |-> key, text |-> value] ELSE d[i]]
    ELSE Append(d, [id |-> key, text |-> value])

EmptyDict == [isDict |-> TRUE, d |-> <<>>]
NotADict == [isDict |-> FALSE, d |-> <<>>]       \* e.g. a pickled list

\* processed_ids.append(x) if x not in processed_ids
AppendNew(s, x) == IF x \in Range(s) THEN s ELSE Append(s, x)

\* ------------------------------------------------------------------- state
VARIABLES
    asMain,                 \* __name__ == "__main__" (line 172)
    index,                  \* the global index; ready = FALSE is None
    stored_docs,            \* the global stored_docs
    lock,                   \* holder of the global lock, or NoThread
    saved_index,            \* the directory ./saved_index
    stored_documents_pkl,   \* the file stored_documents.pkl
    serving,                \* server.serve_forever() is running
    pc,                     \* position of every thread
    local,                  \* arguments and locals of the call a thread runs
    out,                    \* the call that returned last, and what it returned
    nevents,                \* calls, restarts and raised failures so far
    hist                    \* history: what the checked properties refer back to

vars == << asMain, index, stored_docs, lock, saved_index, stored_documents_pkl,
           serving, pc, local, out, nevents, hist >>

NoIndex == [ready |-> FALSE, chunks |-> <<>>]
NewIndex == [ready |-> TRUE, chunks |-> <<>>]      \* VectorStoreIndex([])

\* op and arguments of a call, its locals (i, processed_ids), and a record of
\* what it has done so far: `last` the part previewed last, `inserted` and
\* `failed` the parts whose insert_document returned and raised, `tried` the
\* artifacts it went to write and `wrote` those it wrote, `invoked` whether the
\* query engine was called, `ready` whether index was set when the call came
\* in, `during` the holder of the lock when a query or list call came in.
Local0 == [ op |-> "none", path |-> "", doc_id |-> NoneVal, text |-> NoneVal,
            viaHttp |-> FALSE, i |-> 0, processed_ids |-> <<>>, last |-> 0,
            inserted |-> {}, failed |-> {}, tried |-> {},
            wrote |-> {}, invoked |-> FALSE, ready |-> FALSE, during |-> NoThread ]

RetNone == [kind |-> "None"]                        \* a bare return
NoHttp == [status |-> 0]
NoOut == [call |-> Local0, thread |-> NoThread, result |-> [kind |-> "none"],
          http |-> NoHttp]

\* What a previous run, or somebody else, can have left on disk.
SavedIndexStates ==
    { [state |-> "absent", chunks |-> <<>>],
      [state |-> "corrupt", chunks |-> <<>>],
      [state |-> "ok", chunks |-> <<"u1">>] }

PklStates ==
    { [state |-> "absent", d |-> <<>>],
      [state |-> "corrupt", d |-> <<>>],
      [state |-> "nondict", d |-> <<>>],
      [state |-> "dict", d |-> <<[id |-> "u1", text |-> preview(TextShort)]>>] }

\* History kept for the properties below, never read by the program:
\*   previewed   for every id whose preview an insert has set since stored_docs
\*               was last assigned as a whole, the part (path, number) it was
\*               last taken from
\*   pklFresh    the latest pickle.dump of an insert succeeded
\*   initValid   initialize_index has returned, and nothing but initialize_index
\*               and restarts has touched index, stored_docs or the disk since
\*   initSnap    index, stored_docs and the disk as that initialize_index left them
\*   initCount   how many initialize_index have returned in that stretch (up to 2)
\*   restartSnap index and stored_docs as they were at the last restart, when it
\*               came with no call in progress, after inserts, and with both
\*               artifacts holding what was in memory; <<>> otherwise, and once
\*               index or stored_docs is changed by anything but initialize_index
Hist0 == [ previewed |-> {}, pklFresh |-> FALSE, initValid |-> FALSE,
           initSnap |-> <<>>, initCount |-> 0, restartSnap |-> <<>> ]

Put(previewed, eid, path, part) ==
    {e \in previewed : e.id # eid} \cup {[id |-> eid, path |-> path, part |-> part]}

\* The threads that run in this process: the script's main thread and the
\* server's handler threads, or the callers of the imported module.
Running == IF asMain THEN Threads ELSE Workers

StartPc == [t \in Threads |-> IF t = Main /\ asMain THEN "main_start" ELSE "idle"]

Init ==
    /\ asMain \in BOOLEAN
    /\ index = NoIndex
    /\ stored_docs = EmptyDict
    /\ lock = NoThread
    /\ saved_index \in SavedIndexStates
    /\ stored_documents_pkl \in PklStates
    /\ serving = FALSE
    /\ pc = StartPc
    /\ local = [t \in Threads |-> Local0]
    /\ out = NoOut
    /\ nevents = 0
    /\ hist = Hist0

\* The handler threads are alike; a call goes to the first free one.
Before(u, t) == u = "w1" /\ t = "w2"

\* A thread can take a call: directly when the module is imported, through
\* the BaseManager server once serve_forever() runs.
CanCall(t) ==
    /\ t \in Workers
    /\ pc[t] = "idle"
    /\ \A u \in Workers : Before(u, t) => pc[u] # "idle"
    /\ nevents < MaxEvents
    /\ asMain => serving

\* A call comes in: its arguments, and whether index is set at that moment.
Enter(t, op, path, doc_id, text, viaHttp) ==
    [Local0 EXCEPT !.op = op, !.path = path, !.doc_id = doc_id, !.text = text,
                   !.viaHttp = viaHttp, !.ready = index.ready]

\* No call returns in this step.
Quiet == out' = NoOut

\* The call of thread t returns `result` (and, for a /query request, the
\* HTTP response `resp`); loc is its record at that moment.
Return(t, loc, result, resp) ==
    /\ out' = [call |-> loc, thread |-> t, result |-> result, http |-> resp]
    /\ local' = [local EXCEPT ![t] = Local0]

\* Outcomes of a collaborator call; one that raises is an event.
Outcomes == {"ok", "raise"}
LoadOutcomes == {"ok", "empty", "raise"}        \* "empty": load_data() gave []
Cost(o) == IF o = "raise" THEN 1 ELSE 0
MayRaise(o) == nevents + Cost(o) <= MaxEvents
Count(o) == nevents + Cost(o)

\* (mutant) the lock is taken without waiting for its holder
LockNeverWaits == TRUE

\* lock.acquire(): the thread waits until no thread holds the lock
LockFree == lock = NoThread

\* What a write that raised can leave behind at the target: nothing written,
\* or a partial write that no longer loads.
FailedWrite(old, partial) == {old, partial}

CorruptIndex == [state |-> "corrupt", chunks |-> <<>>]
CorruptPkl == [state |-> "corrupt", d |-> <<>>]

\* index.storage_context.persist(persist_dir=index_name) when it succeeds
PersistIndex(idx) == [state |-> "ok", chunks |-> idx.chunks]

\* load_index_from_storage(...) of the directory
LoadIndex(dir) == [ok |-> dir.state = "ok", value |-> [ready |-> TRUE, chunks |-> dir.chunks]]

\* (mutant) the dump writes an empty dict
PklDumpNothing(sd) == [state |-> "dict", d |-> <<>>]

\* pickle.dump(obj, f) when it succeeds, and pickle.load(f)
PklDump(sd) == [state |-> IF sd.isDict THEN "dict" ELSE "nondict", d |-> sd.d]

PklLoad(file) ==
    [ok |-> file.state \in {"dict", "nondict"},
     value |-> [isDict |-> file.state = "dict", d |-> file.d]]

\* os.path.exists(index_name), os.path.exists(pkl_name)
IndexDirExists == saved_index.state # "absent"
PklExists == stored_documents_pkl.state # "absent"

\* ------------------------------------------------------- initialize_index
\* initialize_index returns: to the caller, or on to serve_forever.
InitReturns(t, loc) ==
    /\ pc' = [pc EXCEPT ![t] = IF t = Main THEN "serve" ELSE "idle"]
    /\ serving' = (serving \/ t = Main)
    /\ Return(t, loc, RetNone, NoHttp)

\* An exception leaves initialize_index: to the caller, or ending the script.
InitRaises(t, loc) ==
    /\ pc' = [pc EXCEPT ![t] = IF t = Main THEN "dead" ELSE "idle"]
    /\ Return(t, loc, [kind |-> "raised", exc |-> "persist"], NoHttp)
    /\ UNCHANGED serving

\* line 173: the script calls initialize_index() first
MainStart ==
    /\ asMain
    /\ pc[Main] = "main_start"
    /\ pc' = [pc EXCEPT ![Main] = "init_lock"]
    /\ local' = [local EXCEPT ![Main] = Enter(Main, "initialize", "", NoneVal, NoneVal, FALSE)]
    /\ Quiet
    /\ UNCHANGED << asMain, index, stored_docs, lock, saved_index,
                    stored_documents_pkl, serving, nevents, hist >>

\* a caller of the imported module calls initialize_index()
CallInitialize(t) ==
    /\ ~asMain
    /\ CanCall(t)
    /\ pc' = [pc EXCEPT ![t] = "init_lock"]
    /\ local' = [local EXCEPT ![t] = Enter(t, "initialize", "", NoneVal, NoneVal, FALSE)]
    /\ nevents' = nevents + 1
    /\ Quiet
    /\ UNCHANGED << asMain, index, stored_docs, lock, saved_index,
                    stored_documents_pkl, serving, hist >>

\* line 34: with lock:
InitAcquire(t) ==
    /\ pc[t] = "init_lock"
    /\ LockFree
    /\ lock' = t
    /\ pc' = [pc EXCEPT ![t] = "init_index"]
    /\ Quiet
    /\ UNCHANGED << asMain, index, stored_docs, saved_index, stored_documents_pkl,
                    serving, local, nevents, hist >>

\* (mutant) a new index is made whatever is saved
NeverLoadsSavedIndex == FALSE

\* lines 35-47: does initialize_index load the saved index (TRUE), or make a
\* new one that it then persists (FALSE)
LoadsSavedIndex == IndexDirExists /\ LoadIndex(saved_index).ok

InitIndex(t) ==
    /\ pc[t] = "init_index"
    /\ IF LoadsSavedIndex
       THEN /\ index' = LoadIndex(saved_index).value
            /\ pc' = [pc EXCEPT ![t] = "init_pkl"]
       ELSE /\ index' = NewIndex
            /\ pc' = [pc EXCEPT ![t] = "init_persist"]
    /\ Quiet
    /\ UNCHANGED << asMain, stored_docs, lock, saved_index, stored_documents_pkl,
                    serving, local, nevents, hist >>

\* lines 44 and 48: index.storage_context.persist(persist_dir=index_name),
\* not inside any try: a failure leaves initialize_index through `with lock`.
InitPersist(t, o) ==
    /\ pc[t] = "init_persist"
    /\ MayRaise(o)
    /\ nevents' = Count(o)
    /\ IF o = "ok"
       THEN /\ saved_index' = PersistIndex(index)
            /\ pc' = [pc EXCEPT ![t] = "init_pkl"]
            /\ local' = [local EXCEPT ![t].tried = @ \cup {"saved_index"},
                                      ![t].wrote = @ \cup {"saved_index"}]
            /\ Quiet
            /\ UNCHANGED << lock, serving >>
       ELSE /\ saved_index' \in FailedWrite(saved_index, CorruptIndex)
            /\ lock' = NoThread
            /\ InitRaises(t, [local[t] EXCEPT !.tried = @ \cup {"saved_index"}])
    /\ UNCHANGED << asMain, index, stored_docs, stored_documents_pkl, hist >>

\* (mutant) a failed pickle.load is not caught and reset to {}
LoadedDocsUnchecked ==
    IF PklExists THEN PklLoad(stored_documents_pkl).value ELSE EmptyDict

\* lines 50-60: what initialize_index assigns to stored_docs
LoadedDocs ==
    IF PklExists /\ PklLoad(stored_documents_pkl).ok
    THEN PklLoad(stored_documents_pkl).value
    ELSE EmptyDict

\* lines 50-61: load the previews, leave `with lock`, return
InitPkl(t) ==
    /\ pc[t] = "init_pkl"
    /\ stored_docs' = LoadedDocs
    /\ lock' = NoThread
    /\ InitReturns(t, local[t])
    /\ hist' = [hist EXCEPT
                  !.previewed = {},
                  !.initValid = TRUE,
                  !.initSnap = IF hist.initValid THEN @
                               ELSE << index, LoadedDocs, saved_index, stored_documents_pkl >>,
                  !.initCount = IF hist.initValid THEN 2 ELSE 1]
    /\ UNCHANGED << asMain, index, saved_index, stored_documents_pkl, nevents >>

\* ------------------------------------------------------ insert_into_index
\* Every return of insert_into_index is a bare return, the `except` of line
\* 142 included: the caller gets None.
InsertReturns(t, loc) ==
    /\ pc' = [pc EXCEPT ![t] = "idle"]
    /\ Return(t, loc, RetNone, NoHttp)

\* index.insert_document(document): one more chunk under the document's id
insert_document(idx, eid) == [idx EXCEPT !.chunks = Append(@, eid)]

\* (mutant) the assignment replaces the dict by one holding the new entry only
SetPreviewOnly(sd, eid, text) == [sd EXCEPT !.d = << [id |-> eid, text |-> preview(text)] >>]

\* lines 121-122: stored_docs[effective_doc_id] = preview
SetPreview(sd, eid, text) == [sd EXCEPT !.d = DictSet(@, eid, preview(text))]

\* lines 86-103: the two guards, then reader.load_data(), which returns the
\* parts, returns none, or raises; nothing shared is touched so far
CallInsert(t, path, doc_id, o) ==
    /\ CanCall(t)
    /\ nevents + 1 + Cost(o) <= MaxEvents
    /\ LET loc == Enter(t, "insert", path, doc_id, NoneVal, FALSE)
       IN IF ~index.ready \/ ~exists(path)
          THEN /\ o = "ok"
               /\ InsertReturns(t, loc)
               /\ nevents' = nevents + 1
          ELSE /\ nevents' = nevents + 1 + Cost(o)
               /\ IF o = "ok"
                  THEN /\ pc' = [pc EXCEPT ![t] = "ins_lock"]
                       /\ local' = [local EXCEPT ![t] = loc]
                       /\ Quiet
                  ELSE InsertReturns(t, loc)
    /\ UNCHANGED << asMain, index, stored_docs, lock, saved_index,
                    stored_documents_pkl, serving, hist >>

\* (mutant) the loop and the persistence run without `with lock`
InsNoLock(t) ==
    /\ pc[t] = "ins_lock"
    /\ pc' = [pc EXCEPT ![t] = "ins_loop"]
    /\ local' = [local EXCEPT ![t].i = 1, ![t].processed_ids = <<>>]
    /\ Quiet
    /\ UNCHANGED << asMain, index, stored_docs, lock, saved_index,
                    stored_documents_pkl, serving, nevents, hist >>

\* lines 105-106: with lock: processed_ids = []
InsAcquire(t) ==
    /\ pc[t] = "ins_lock"
    /\ LockFree
    /\ lock' = t
    /\ pc' = [pc EXCEPT ![t] = "ins_loop"]
    /\ local' = [local EXCEPT ![t].i = 1, ![t].processed_ids = <<>>]
    /\ Quiet
    /\ UNCHANGED << asMain, index, stored_docs, saved_index, stored_documents_pkl,
                    serving, nevents, hist >>

\* (mutant) with nothing processed the call returns still holding the lock
AfterPartKeepsLock(t, loc) ==
    IF loc.i <= Len(load_data(loc.path))
    THEN /\ local' = [local EXCEPT ![t] = loc]
         /\ Quiet
         /\ UNCHANGED << lock, pc >>
    ELSE IF loc.processed_ids = <<>>
         THEN /\ UNCHANGED lock
              /\ InsertReturns(t, loc)
         ELSE /\ pc' = [pc EXCEPT ![t] = "ins_persist"]
              /\ local' = [local EXCEPT ![t] = loc]
              /\ Quiet
              /\ UNCHANGED lock

\* lines 126 and 139-145, after the last pass of the loop: with nothing
\* processed the call leaves `with lock` and returns, else it goes on to persist
AfterPart(t, loc) ==
    IF loc.i <= Len(load_data(loc.path))
    THEN /\ local' = [local EXCEPT ![t] = loc]
         /\ Quiet
         /\ UNCHANGED << lock, pc >>
    ELSE IF loc.processed_ids = <<>>
         THEN /\ lock' = NoThread
              /\ InsertReturns(t, loc)
         ELSE /\ pc' = [pc EXCEPT ![t] = "ins_persist"]
              /\ local' = [local EXCEPT ![t] = loc]
              /\ Quiet
              /\ UNCHANGED lock

\* lines 107-124: one pass of the loop over documents.  A failed insertion is
\* skipped; an item assignment on a stored_docs that is no dict raises
\* TypeError, which the `except` of line 142 catches after `with lock` is left.
InsPart(t, o) ==
    /\ pc[t] = "ins_loop"
    /\ MayRaise(o)
    /\ nevents' = Count(o)
    /\ LET loc == local[t]
           document == load_data(loc.path)[loc.i]
           eid == effective_doc_id(loc.doc_id, document, loc.path)
       IN IF o = "raise"
          THEN /\ AfterPart(t, [loc EXCEPT !.failed = @ \cup {loc.i}, !.i = @ + 1])
               /\ UNCHANGED << index, stored_docs, hist >>
          ELSE /\ index' = insert_document(index, eid)
               /\ IF stored_docs.isDict
                  THEN /\ stored_docs' = SetPreview(stored_docs, eid, document.text)
                       /\ hist' = [hist EXCEPT
                                     !.previewed = Put(@, eid, loc.path, loc.i),
                                     !.initValid = FALSE,
                                     !.restartSnap = <<>>]
                       /\ AfterPart(t, [loc EXCEPT !.processed_ids = AppendNew(@, eid),
                                                   !.last = loc.i,
                                                   !.inserted = @ \cup {loc.i},
                                                   !.i = @ + 1])
                  ELSE /\ lock' = NoThread
                       /\ InsertReturns(t, [loc EXCEPT !.inserted = @ \cup {loc.i}])
                       /\ hist' = [hist EXCEPT !.initValid = FALSE, !.restartSnap = <<>>]
                       /\ UNCHANGED stored_docs
    /\ UNCHANGED << asMain, saved_index, stored_documents_pkl, serving >>

\* lines 128-131: index.storage_context.persist(...), failure logged only
InsPersist(t, o) ==
    /\ pc[t] = "ins_persist"
    /\ MayRaise(o)
    /\ nevents' = Count(o)
    /\ IF o = "ok"
       THEN /\ saved_index' = PersistIndex(index)
            /\ local' = [local EXCEPT ![t].tried = @ \cup {"saved_index"},
                                      ![t].wrote = @ \cup {"saved_index"}]
       ELSE /\ saved_index' \in FailedWrite(saved_index, CorruptIndex)
            /\ local' = [local EXCEPT ![t].tried = @ \cup {"saved_index"}]
    /\ pc' = [pc EXCEPT ![t] = "ins_pickle"]
    /\ Quiet
    /\ UNCHANGED << asMain, index, stored_docs, lock, stored_documents_pkl, serving,
                    hist >>

\* lines 134-145: open(pkl_name, "wb") and pickle.dump(stored_docs, f), failure
\* logged only; then the call leaves `with lock` and returns.  open() truncates
\* the file, so a failure of open leaves the file as it was and a failure of
\* dump leaves a file that does not load.
InsPickle(t, o) ==
    /\ pc[t] = "ins_pickle"
    /\ MayRaise(o)
    /\ nevents' = Count(o)
    /\ IF o = "ok"
       THEN stored_documents_pkl' = PklDump(stored_docs)
       ELSE stored_documents_pkl' \in FailedWrite(stored_documents_pkl, CorruptPkl)
    /\ lock' = NoThread
    /\ InsertReturns(t, IF o = "ok"
                        THEN [local[t] EXCEPT !.tried = @ \cup {"stored_documents_pkl"},
                                              !.wrote = @ \cup {"stored_documents_pkl"}]
                        ELSE [local[t] EXCEPT !.tried = @ \cup {"stored_documents_pkl"}])
    /\ hist' = [hist EXCEPT !.pklFresh = (o = "ok")]
    /\ UNCHANGED << asMain, index, stored_docs, saved_index, serving >>

\* ----------------------------------------------------- get_documents_list
\* lines 167-170: the list of {"id", "text"} in the dict's iteration order
documents_list(sd) == sd.d

ListReturns(t, loc, sd) ==
    /\ pc' = [pc EXCEPT ![t] = "idle"]
    /\ Return(t, loc, [kind |-> "list", docs |-> documents_list(sd)], NoHttp)

\* line 150: isinstance(stored_docs, dict)
CallList(t) ==
    /\ CanCall(t)
    /\ nevents' = nevents + 1
    /\ LET loc == [Enter(t, "list", "", NoneVal, NoneVal, FALSE) EXCEPT !.during = lock]
       IN IF stored_docs.isDict
          THEN ListReturns(t, loc, stored_docs)
          ELSE /\ pc' = [pc EXCEPT ![t] = "list_reload"]
               /\ local' = [local EXCEPT ![t] = loc]
               /\ Quiet
    /\ UNCHANGED << asMain, index, stored_docs, lock, saved_index,
                    stored_documents_pkl, serving, hist >>

\* lines 152-165: what the reload assigns to stored_docs
Reloaded ==
    IF PklExists /\ PklLoad(stored_documents_pkl).ok
                 /\ PklLoad(stored_documents_pkl).value.isDict
    THEN PklLoad(stored_documents_pkl).value
    ELSE EmptyDict

\* lines 151-170: reload from the file, no lock taken, and return the list
ListReload(t) ==
    /\ pc[t] = "list_reload"
    /\ stored_docs' = Reloaded
    /\ ListReturns(t, local[t], Reloaded)
    /\ hist' = [hist EXCEPT !.previewed = {}, !.initValid = FALSE, !.restartSnap = <<>>]
    /\ UNCHANGED << asMain, index, lock, saved_index, stored_documents_pkl, serving,
                    nevents >>

\* ------------------------------------------------------------- query_index
\* A str is kept as the sequence of the pieces it was formatted from.
NotReadyMsg == << "Error: Index not ready." >>
QueryErrorMsg(e) == << "Error during query: ", e >>      \* f"Error during query: {e}"
GenericQueryError == << "An error occurred while querying the index." >>
NoTextError == << "No text found, please include a ?text=blah parameter" >>

\* flask_demo.query_index, lines 38-62, on what manager.query_index gave
FlaskQuery(result) ==
    CASE result.kind = "raised" ->
             [status |-> 500, error |-> GenericQueryError]
      [] result.kind = "str" ->
             [status |-> 200, text |-> result.msg, sources |-> <<>>]
      [] OTHER ->
             [status |-> 200, text |-> result.text, sources |-> result.sources]

QueryReturns(t, loc, result) ==
    /\ pc' = [pc EXCEPT ![t] = "idle"]
    /\ Return(t, loc, result, IF loc.viaHttp THEN FlaskQuery(result) ELSE NoHttp)

\* index_server.query_index, lines 66-69: the guard, then query_text[:50],
\* which raises TypeError on None before the try is entered
QueryEnter(t, loc) ==
    IF ~index.ready
    THEN QueryReturns(t, loc, [kind |-> "str", msg |-> NotReadyMsg])
    ELSE IF loc.text = NoneVal
         THEN QueryReturns(t, loc, [kind |-> "raised", exc |-> "TypeError"])
         ELSE /\ pc' = [pc EXCEPT ![t] = "q_exec"]
              /\ local' = [local EXCEPT ![t] = loc]
              /\ Quiet

\* a call of query_index, directly or from another BaseManager client
CallQuery(t, text) ==
    /\ CanCall(t)
    /\ nevents' = nevents + 1
    /\ QueryEnter(t, [Enter(t, "query", "", NoneVal, text, FALSE) EXCEPT !.during = lock])
    /\ UNCHANGED << asMain, index, stored_docs, lock, saved_index,
                    stored_documents_pkl, serving, hist >>

\* GET /query of flask_demo, lines 34-39: without ?text= the request is
\* answered 400 and the manager is not called
HttpQuery(t, text) ==
    /\ asMain
    /\ CanCall(t)
    /\ nevents' = nevents + 1
    /\ LET loc == [Enter(t, "query", "", NoneVal, text, TRUE) EXCEPT !.during = lock]
       IN IF text = NoneVal
          THEN /\ Return(t, [loc EXCEPT !.op = "http"], [kind |-> "none"],
                         [status |-> 400, error |-> NoTextError])
               /\ UNCHANGED pc
          ELSE QueryEnter(t, loc)
    /\ UNCHANGED << asMain, index, stored_docs, lock, saved_index,
                    stored_documents_pkl, serving, hist >>

\* query_engine.query(query_text) when it returns: the answer and up to
\* similarity_top_k source chunks of the index as it is now
Response(idx) == [kind |-> "response", text |-> << "answer" >>,
                  sources |-> Slice(idx.chunks, TopK)]

\* (mutant) the query runs only once the lock is free
QueryExecWaits(t, o, e) ==
    /\ pc[t] = "q_exec"
    /\ LockFree
    /\ MayRaise(o)
    /\ nevents' = Count(o)
    /\ QueryReturns(t, [local[t] EXCEPT !.invoked = TRUE],
                    IF o = "ok" THEN Response(index)
                    ELSE [kind |-> "str", msg |-> QueryErrorMsg(e)])
    /\ UNCHANGED << asMain, index, stored_docs, lock, saved_index,
                    stored_documents_pkl, serving, hist >>

\* lines 70-78: the collaborator is called; what it raises is formatted into
\* the returned str
QueryExec(t, o, e) ==
    /\ pc[t] = "q_exec"
    /\ MayRaise(o)
    /\ nevents' = Count(o)
    /\ QueryReturns(t, [local[t] EXCEPT !.invoked = TRUE],
                    IF o = "ok" THEN Response(index)
                    ELSE [kind |-> "str", msg |-> QueryErrorMsg(e)])
    /\ UNCHANGED << asMain, index, stored_docs, lock, saved_index,
                    stored_documents_pkl, serving, hist >>

\* ----------------------------------------------------------------- restart
\* The process ends (killed, crashed, or the script ended on an exception)
\* and is started again: globals are back to their module-level values, the
\* disk stays; an index write cut short may have left a partial directory.
WritingIndex(t) == pc[t] \in {"init_persist", "ins_persist"}
WritingPkl(t) == pc[t] = "ins_pickle"

\* No call is in progress.
Quiescent ==
    /\ \A t \in Workers : pc[t] = "idle"
    /\ asMain => pc[Main] = "serve"

\* Both artifacts hold what is in memory.
Synced ==
    /\ index.ready /\ stored_docs.isDict
    /\ saved_index = [state |-> "ok", chunks |-> index.chunks]
    /\ stored_documents_pkl = [state |-> "dict", d |-> stored_docs.d]

Restart ==
    /\ nevents < MaxEvents
    /\ nevents' = nevents + 1
    /\ index' = NoIndex
    /\ stored_docs' = EmptyDict
    /\ lock' = NoThread
    /\ serving' = FALSE
    /\ pc' = StartPc
    /\ local' = [t \in Threads |-> Local0]
    /\ out' = NoOut
    /\ IF \E t \in Threads : WritingIndex(t)
       THEN saved_index' \in FailedWrite(saved_index, CorruptIndex)
       ELSE saved_index' = saved_index
    /\ IF \E t \in Threads : WritingPkl(t)
       THEN stored_documents_pkl' \in FailedWrite(stored_documents_pkl, CorruptPkl)
       ELSE stored_documents_pkl' = stored_documents_pkl
    /\ hist' = [hist EXCEPT
                  !.previewed = {},
                  !.restartSnap = IF Quiescent /\ Synced /\ hist.previewed # {}
                                  THEN << index, stored_docs >>
                                  ELSE <<>>]
    /\ UNCHANGED asMain

Next ==
    \/ MainStart
    \/ \E t \in Threads : CallInitialize(t)
    \/ \E t \in Threads : InitAcquire(t)
    \/ \E t \in Threads : InitIndex(t)
    \/ \E t \in Threads, o \in Outcomes : InitPersist(t, o)
    \/ \E t \in Threads : InitPkl(t)
    \/ \E t \in Threads, a \in InsertArgs, o \in LoadOutcomes : CallInsert(t, a[1], a[2], o)
    \/ \E t \in Threads : InsAcquire(t)
    \/ \E t \in Threads, o \in Outcomes : InsPart(t, o)
    \/ \E t \in Threads, o \in Outcomes : InsPersist(t, o)
    \/ \E t \in Threads, o \in Outcomes : InsPickle(t, o)
    \/ \E t \in Threads : CallList(t)
    \/ \E t \in Threads : ListReload(t)
    \/ \E t \in Threads, text \in QueryTexts : CallQuery(t, text)
    \/ \E t \in Threads, text \in QueryTexts : HttpQuery(t, text)
    \/ \E t \in Threads, o \in Outcomes, e \in QueryErrors : QueryExec(t, o, e)
    \/ Restart

Spec == Init /\ [][Next]_vars

\* A call under way goes on: the thread is scheduled, lock.acquire() returns
\* once the lock is free, and a collaborator that is called returns or raises.
ThreadStep(t) ==
    \/ t = Main /\ MainStart
    \/ InitAcquire(t)
    \/ InitIndex(t)
    \/ \E o \in Outcomes : InitPersist(t, o)
    \/ InitPkl(t)
    \/ InsAcquire(t)
    \/ \E o \in Outcomes : InsPart(t, o)
    \/ \E o \in Outcomes : InsPersist(t, o)
    \/ \E o \in Outcomes : InsPickle(t, o)
    \/ ListReload(t)
    \/ \E o \in Outcomes, e \in QueryErrors : QueryExec(t, o, e)

FairSpec == Spec /\ \A t \in Threads : WF_vars(ThreadStep(t))

\* ------------------------------------------------------------- properties
\* Thread t is inside `with lock` of insert_into_index or initialize_index.
InCritical(t) ==
    pc[t] \in {"init_index", "init_persist", "init_pkl", "ins_loop", "ins_persist", "ins_pickle"}

\* Thread t is at a write to ./saved_index or stored_documents.pkl.
Writing(t) == WritingIndex(t) \/ WritingPkl(t)

\* Thread t waits for the lock.
Waiting(t) == pc[t] \in {"init_lock", "ins_lock"}

\* Every update of a finished insert is there: its ids have chunks in index and
\* entries in stored_docs.
SeesUpdates ==
    \A e \in hist.previewed :
        e.id \in Keys(stored_docs.d) /\ e.id \in Range(index.chunks)

\* C1: at most one caller is between acquiring and releasing the lock, and an
\* insert enters its critical section only when no other caller is inside one,
\* and then finds the updates of the inserts before it in index and stored_docs.
C1_OneMutationInFlight ==
    /\ [](Cardinality({t \in Threads : InCritical(t)}) <= 1)
    /\ [][\A t \in Threads :
            (pc[t] = "ins_lock" /\ pc'[t] = "ins_loop")
                => /\ \A u \in Threads \ {t} : ~InCritical(u)
                   /\ SeesUpdates']_vars

\* Exactly two calls were made, overlapping; the first was an insert that set
\* previews and has returned, the second has just entered its critical section.
C1_Witness ==
    /\ nevents = 2
    /\ pc["w1"] = "idle"
    /\ pc["w2"] = "ins_loop" /\ local["w2"].i = 1
    /\ hist.previewed # {}

\* C10: a thread that writes ./saved_index or stored_documents.pkl holds the
\* lock, no two threads are at a write at once, and the two artifacts change
\* only in steps taken while the writer holds the lock.
C10_WritesUnderLock ==
    /\ [](\A t \in Threads : Writing(t) => lock = t)
    /\ [](Cardinality({t \in Threads : Writing(t)}) <= 1)
    /\ [][(saved_index' # saved_index \/ stored_documents_pkl' # stored_documents_pkl)
            => \E t \in Threads : Writing(t) /\ lock = t]_vars

\* One thread is at its write while another waits for the lock.
C10_Witness ==
    \E t \in Threads, u \in Threads : Writing(t) /\ Waiting(u)

\* index, stored_docs and both durable artifacts are left as they were.
NothingTouched == UNCHANGED << index, stored_docs, saved_index, stored_documents_pkl >>

\* C4: an insert of a path that does not exist returns a NotFound error to the
\* caller and leaves stored_docs, index and both durable artifacts unchanged.
C4_MissingFileNotFound ==
    [][(out'.call.op = "insert" /\ out'.call.ready /\ ~exists(out'.call.path))
          => (out'.result.kind = "NotFound" /\ NothingTouched)]_vars

\* The value a caller can tell a NotReady failure by.
IsNotReady(result) ==
    \/ result.kind = "NotReady"
    \/ result.kind = "str" /\ result.msg = NotReadyMsg

\* C5: initialize_index has run to completion before the server accepts any
\* call, and an insert or query that comes in while index is not set fails with
\* a NotReady error the caller sees, touching nothing.
C5_NotReadyVisible ==
    /\ [](asMain /\ (\E t \in Workers : pc[t] # "idle" \/ out.thread = t)
            => pc[Main] = "serve" /\ index.ready)
    /\ [][(out'.call.op \in {"insert", "query"} /\ ~out'.call.ready)
            => (IsNotReady(out'.result) /\ NothingTouched)]_vars

\* C8: a query whose text is "" or None, on an index that is set, returns
\* InvalidArgument (from query_index, as the 400 of /query, or as the TypeError
\* that None raises) and the query engine is not called.
C8_EmptyQueryRejected ==
    (out.call.op \in {"query", "http"} /\ out.call.text \in {"", NoneVal}
                                       /\ out.call.ready)
        => /\ \/ out.result.kind = "InvalidArgument"
              \/ out.http.status = 400
              \/ out.result = [kind |-> "raised", exc |-> "TypeError"]
           /\ ~out.call.invoked

\* C9: when the query engine raised, what the caller gets (from query_index,
\* and as the body of /query) holds no raw error text.
C9_NoRawErrorText ==
    (out.call.invoked /\ out.result.kind = "str")
        => \A e \in QueryErrors :
              /\ e \notin Range(out.result.msg)
              /\ out.call.viaHttp => e \notin Range(out.http.text)

\* Thread t is inside `with lock` of insert_into_index.
InsertCS(t) == pc[t] \in {"ins_loop", "ins_persist", "ins_pickle"}

\* Inserts of two different files have set previews, and no insert is still
\* inside its critical section.
TwoInsertsDone ==
    /\ \E e1 \in hist.previewed, e2 \in hist.previewed : e1.path # e2.path
    /\ \A t \in Threads : ~InsertCS(t)

InMemory(eid) == stored_docs.isDict /\ eid \in Keys(stored_docs.d)
InFile(eid) == stored_documents_pkl.state = "dict" /\ eid \in Keys(stored_documents_pkl.d)

FirstChars(text, n) == [i \in 1..(IF Len(text) < n THEN Len(text) ELSE n) |-> text[i]]

\* The preview the insert-then-list property asks for.
ClaimedPreview(text) ==
    IF Len(text) > 200
    THEN FirstChars(text, 200) \o << ".", ".", "." >>
    ELSE FirstChars(text, 200)

\* The part of its file an insert that has just returned previewed last, if the
\* entry it set is still the latest one set for that id.
LastPreviewed(o) ==
    [ id |-> effective_doc_id(o.call.doc_id, load_data(o.call.path)[o.call.last], o.call.path),
      path |-> o.call.path, part |-> o.call.last ]

C6_InitializeTwice ==
    (out.call.op = "initialize" /\ out.result = RetNone /\ hist.initCount = 2)
        => /\ << index, stored_docs, saved_index, stored_documents_pkl >> = hist.initSnap
           /\ out.call.wrote = {}

\* A second initialize_index in a row has returned.
C6_Witness ==
    out.call.op = "initialize" /\ out.result = RetNone /\ hist.initCount = 2

\* C7: with a preview file that does not load, initialize_index returns with
\* index set and stored_docs = {}, the only exception that can leave it is the
\* index persist's, and get_documents_list then returns [].
C7_CorruptPreviewFile ==
    stored_documents_pkl.state = "corrupt" =>
        /\ (out.call.op = "initialize" /\ out.result = RetNone)
              => index.ready /\ stored_docs = EmptyDict
        /\ (out.call.op = "initialize" /\ out.result # RetNone)
              => out.result = [kind |-> "raised", exc |-> "persist"] /\ pc[out.thread] # "init_pkl"
        /\ (out.call.op = "list" /\ hist.initValid)
              => out.result = [kind |-> "list", docs |-> <<>>]

\* get_documents_list has returned [] after an initialize_index that found the
\* preview file corrupt.
C7_Witness ==
    /\ stored_documents_pkl.state = "corrupt"
    /\ out.call.op = "list" /\ hist.initValid
    /\ out.result = [kind |-> "list", docs |-> <<>>]

\* The step is taken by thread t: its position or its call record changes.
ActsIn(t) == pc'[t] # pc[t] \/ local'[t] # local[t]

\* C11: index and stored_docs change only in steps of a caller that holds the
\* lock (a restart of the process, which resets both, is no operation).
C11_MutatedUnderLock ==
    [][(index' # index \/ stored_docs' # stored_docs)
          => \/ Restart
             \/ \E t \in Threads : lock = t /\ InCritical(t) /\ ActsIn(t)]_vars

\* The call that has just returned, when it is an insert that got past the
\* guards and the loader.
InsertDone == out.call.op = "insert"

\* C12: an insert goes to write durable storage exactly when insert_document
\* returned for at least one part in that call; with none, neither artifact is
\* written, and in either case the lock is released when the call returns.
C12_PersistIffInserted ==
    InsertDone =>
        /\ (out.call.tried # {}) <=> (out.call.inserted # {})
        /\ out.call.inserted = {} => out.call.wrote = {}
        /\ lock # out.thread

\* C13: a write of an insert that fails leaves the artifact it was writing as
\* it was before (and the other one untouched).
C13_FailedWriteKeepsDisk ==
    [][/\ \A t \in Threads :
            (pc[t] = "ins_persist" /\ pc'[t] = "ins_pickle"
                                   /\ "saved_index" \notin local'[t].wrote)
                => UNCHANGED << saved_index, stored_documents_pkl >>
       /\ \A t \in Threads :
            (pc[t] = "ins_pickle" /\ out'.thread = t
                                  /\ "stored_documents_pkl" \notin out'.call.wrote)
                => UNCHANGED << saved_index, stored_documents_pkl >>]_vars

BothArtifacts == {"saved_index", "stored_documents_pkl"}

C15_IndexedIdsPreviewed ==
    (\A t \in Threads : ~InCritical(t))
        => \A id \in Range(index.chunks) : InMemory(id)

\* C16: when initialize_index has returned, stored_docs is a dict, whatever the
\* preview file deserialized to; and an insert whose insert_document returned
\* for some part has recorded a preview and gone on to write both artifacts.
C16_PreviewStoreIsMapping ==
    /\ (out.call.op = "initialize" /\ out.result = RetNone) => stored_docs.isDict
    /\ (InsertDone /\ out.call.inserted # {})
          => out.call.last > 0 /\ out.call.tried = BothArtifacts

\* A value that is given: neither None nor empty.
Given(v) == v \notin {NoneVal, ""}

\* The identifier the precedence rule names: docId, else the loader's id, else
\* the base name; an empty docId taken as absent, or taken as given.
RuleId(doc_id, id_, path) ==
    IF Given(doc_id) THEN doc_id ELSE IF Given(id_) THEN id_ ELSE basename(path)

RuleIds(doc_id, id_, path) ==
    {RuleId(doc_id, id_, path)} \cup (IF doc_id = "" THEN {""} ELSE {})

\* The record of thread t's call after the step, also when the step returns.
After(t) == IF out'.thread = t THEN out'.call ELSE local'[t]

\* C19: every part that is inserted goes into index, and into stored_docs,
\* under the identifier of the precedence rule.
C19_IdPrecedence ==
    [][\A t \in Threads :
          (pc[t] = "ins_loop" /\ After(t).op = "insert" /\ index' # index)
              => LET document == load_data(local[t].path)[local[t].i]
                     ids == RuleIds(local[t].doc_id, document.id_, local[t].path)
                 IN /\ \E id \in ids : index'.chunks = Append(index.chunks, id)
                    /\ stored_docs.isDict
                          => \E id \in ids : /\ id \in Keys(stored_docs'.d)
                                             /\ index'.chunks = Append(index.chunks, id)]_vars

\* C17: the holder of the lock is never a query_index or get_documents_list
\* call, neither of them ever waits for the lock, and whoever holds the lock,
\* a query or list call can come in and a call under way can take its step.
C17_ReadersTakeNoLock ==
    \A t \in Threads :
        /\ lock = t => local[t].op \in {"insert", "initialize"}
        /\ local[t].op \in {"query", "list"} => ~Waiting(t)
        /\ CanCall(t) => ENABLED CallQuery(t, "q") /\ ENABLED CallList(t)
        /\ pc[t] = "q_exec" => ENABLED (\E e \in QueryErrors : QueryExec(t, "ok", e))
        /\ pc[t] = "list_reload" => ENABLED ListReload(t)

\* A query came in and returned while an insert of b.pdf held the lock, between
\* the insertions of its two parts, and its sources hold the first part's chunk.
C17_Witness ==
    /\ out.call.op = "query" /\ out.result.kind = "response"
    /\ \E u \in Threads :
          /\ out.call.during = u /\ lock = u
          /\ pc[u] = "ins_loop" /\ local[u].i = 2 /\ local[u].inserted = {1}
    /\ "u2" \in Range(out.result.sources)

\* The identifier part p of the insert that has just returned went under.
PartId(p) == effective_doc_id(out.call.doc_id, load_data(out.call.path)[p], out.call.path)

\* C18: when insert_document raised for a part of an insert, every part of the
\* file was still attempted, the failed attempt changed neither index nor
\* stored_docs, and the parts whose insert_document returned have their
\* previews in stored_docs and were followed by the write of both artifacts.
C18_FailedPartSkipped ==
    /\ []((InsertDone /\ out.call.failed # {})
            => /\ out.call.failed \cup out.call.inserted
                     = 1..Len(load_data(out.call.path))
               /\ \A p \in out.call.inserted : InMemory(PartId(p))
               /\ out.call.inserted # {} => out.call.tried = BothArtifacts)
    /\ [][\A t \in Threads :
            (pc[t] = "ins_loop" /\ After(t).op = "insert"
                                /\ After(t).failed # local[t].failed)
                => UNCHANGED << index, stored_docs >>]_vars

\* C20: the lock is held only by a thread inside `with lock`, so it is free
\* whenever no insert or initialize is in progress; a thread that holds it
\* releases it, whichever way its critical section ends; and a thread that
\* waits for it does not wait forever.
C20_LockReleased ==
    /\ [](\A t \in Threads : lock = t => InCritical(t))
    /\ [](Quiescent => lock = NoThread)
    /\ (lock # NoThread) ~> (lock = NoThread)
    /\ \A t \in Threads : Waiting(t) ~> ~Waiting(t)

\* An insert one of whose writes failed has returned and released the lock
\* while another insert waits for it.
C20_Witness ==
    /\ InsertDone /\ out.call.tried = BothArtifacts /\ out.call.wrote # BothArtifacts
    /\ lock = NoThread
    /\ \E u \in Threads : pc[u] = "ins_lock"

====
